---- MODULE Spec2Model ----
(***************************************************************************)
(* Credit ledger and payment reconciliation of intellmade.com.             *)
(*                                                                         *)
(* The repository keeps a prepaid credit balance in two storage schemes:   *)
(*   - the edge functions and the browser context use the tables           *)
(*     user_credits (keyed by email) and credit_transactions;              *)
(*   - the Express backend uses profiles.credits_remaining (keyed by user  *)
(*     id) and payment_history.                                            *)
(* Every handler is a sequence of awaited round trips to the store; each   *)
(* round trip is one atomic step here and handlers interleave freely       *)
(* between their steps.                                                    *)
(***************************************************************************)
EXTENDS Integers, FiniteSets, Sequences, Bags, TLC

\* ---------------------------------------------------------------------
\* Bounds and input sets
\* ---------------------------------------------------------------------

\* number of request handlers that run (each runs one request)
NumProcs == 2

Procs == 1..NumProcs

\* principals; in the email-keyed scheme a principal is named by its email
Users == {"u1", "u2"}

\* checkout sessions known to the payment provider
SessionIds == {"sess_1", "sess_2"}

\* the two checkout sessions of one customer, of different plans
PlanSessionIds == {"sess_1", "sess_3"}

\* one checkout session of each plan on sale
EachPlanSessionIds == {"sess_1", "sess_3", "sess_4", "sess_5"}

\* amounts a caller of the deduct-credits function puts in the request body
BodyAmounts == {-5, 60}

\* null column value
Null == "null"

\* a response that carries no balance
NoCredits == -1

\* ---------------------------------------------------------------------
\* Price tables
\* ---------------------------------------------------------------------

\* credits granted to a new user by get-credits
SignupBonus == 100

\* PLAN_CREDITS of payments-verify and of the stripe-webhook function
PLAN_CREDITS(plan) ==
    CASE plan = "personal" -> 600
      [] plan = "creator"  -> 1800
      [] plan = "studio"   -> 5000
      [] plan = "flex"     -> 120
      [] OTHER             -> 0

\* const plan = session.metadata?.plan || 'personal'
PlanOrDefault(plan) == IF plan = Null THEN "personal" ELSE plan

\* const creditsToAdd = PLAN_CREDITS[plan] || 600
CreditsToAdd(plan) ==
    IF PLAN_CREDITS(PlanOrDefault(plan)) = 0 THEN 600
    ELSE PLAN_CREDITS(PlanOrDefault(plan))

\* keys of TOOL_COSTS of the browser context
PricedToolKeys == {"IMAGE_GEN", "VIDEO_GEN", "ANIMATE", "VOICE_CHAT", "ANALYSIS"}

\* tool keys the components pass to deductCredit: a key of TOOL_COSTS, and
\* the 1 that ImageCreator.handleGenerate passes (deductCredit(1, 'Image Generation'))
ClientTools == {"VIDEO_GEN", "1"}

\* TOOL_COSTS[toolKey] || 1

TOOL_COSTS(toolKey) ==
    CASE toolKey = "IMAGE_GEN"  -> 10
      [] toolKey = "VIDEO_GEN"  -> 45
      [] toolKey = "ANIMATE"    -> 45
      [] toolKey = "VOICE_CHAT" -> 10
      [] toolKey = "ANALYSIS"   -> 10
      [] OTHER                  -> 1

\* credits_remaining INTEGER DEFAULT 50 of the profiles table
ProfileDefaultCredits == 50

\* PLAN_CONFIG[plan].credits of the Express backend; 0 stands for no entry
PLAN_CONFIG(plan) ==
    CASE plan = "free"     -> 100
      [] plan = "personal" -> 600
      [] plan = "creator"  -> 1800
      [] plan = "studio"   -> 5000
      [] plan = "flex"     -> 100
      [] OTHER             -> 0

\* planOrder[plan] || 0 in StripeService.addCredits
planOrder(plan) ==
    CASE plan = "personal" -> 1
      [] plan = "creator"  -> 2
      [] plan = "studio"   -> 3
      [] OTHER             -> 0

\* tools a caller of POST /api/credits/deduct names
RouteTools == {"photo_animator", "nonexistent_tool"}

\* TOOL_COSTS of the credits route; 0 stands for undefined
RouteToolCost(tool) ==
    CASE tool = "general_intelligence" -> 2
      [] tool = "image_analyzer"       -> 2
      [] tool = "video_analyzer"       -> 2
      [] tool = "audio_transcriber"    -> 2
      [] tool = "voice_chat"           -> 2
      [] tool = "image_editor"         -> 8
      [] tool = "image_cloner"         -> 8
      [] tool = "image_creator"        -> 12
      [] tool = "photo_animator"       -> 45
      [] tool = "prompt_video"         -> 45
      [] OTHER                         -> 0

\* ---------------------------------------------------------------------
\* The payment provider's checkout sessions (metadata fixed at checkout)
\* ---------------------------------------------------------------------

\* customer_email and metadata.plan are read by the edge functions,
\* metadata.supabase_user_id and metadata.plan_name by the Express backend;
\* sess_2 was created without plan metadata; sess_3 is a second, smaller
\* purchase of the customer of sess_1
StripeSession(s) ==
    CASE s = "sess_1" -> [customer_email |-> "u1", plan |-> "creator",
                          supabase_user_id |-> "u1", plan_name |-> "creator"]
      [] s = "sess_2" -> [customer_email |-> "u2", plan |-> Null,
                          supabase_user_id |-> "u2", plan_name |-> Null]
      [] s = "sess_3" -> [customer_email |-> "u1", plan |-> "personal",
                          supabase_user_id |-> "u1", plan_name |-> "personal"]
      [] s = "sess_4" -> [customer_email |-> "u2", plan |-> "flex",
                          supabase_user_id |-> "u2", plan_name |-> "flex"]
      [] s = "sess_5" -> [customer_email |-> "u2", plan |-> "studio",
                          supabase_user_id |-> "u2", plan_name |-> "studio"]

\* ---------------------------------------------------------------------
\* State
\* ---------------------------------------------------------------------

VARIABLES
    user_credits,         \* table user_credits: email -> credits (rows that exist)
    credit_transactions,  \* table credit_transactions: bag of rows
    profiles,             \* table profiles: user id -> row
    payment_history,      \* table payment_history: bag of rows
    payment_sessions,     \* table payment_sessions: bag of rows
    paid,                 \* sessions whose payment_status is 'paid'
    pc,                   \* position of each handler
    req                   \* request, locals and response of each handler

vars == <<user_credits, credit_transactions, profiles, payment_history, payment_sessions,
          paid, pc, req>>

NoReq ==
    [kind |-> "none", email |-> Null, amount |-> 0, sessionId |-> Null,
     newTotal |-> 0, plan |-> Null, status |-> "pending", credits |-> NoCredits,
     after |-> {}, tool |-> Null, ai |-> "none", fault |-> "none"]

\* a row of credit_transactions
Txn(email, amount, type, sessionId) ==
    [email |-> email, amount |-> amount, type |-> type,
     stripe_session_id |-> sessionId]

\* ---------------------------------------------------------------------
\* Store operations
\* ---------------------------------------------------------------------

HasRow(email) == email \in DOMAIN user_credits

\* currentCredits?.credits || 0
CreditsOrZero(email) == IF HasRow(email) THEN user_credits[email] ELSE 0

\* supabase.from('user_credits').upsert({email, credits}, {onConflict: 'email'})
Upsert(email, credits) ==
    [e \in (DOMAIN user_credits) \cup {email} |->
        IF e = email THEN credits ELSE user_credits[e]]

\* supabase.from('user_credits').insert({email, credits}): the unique email
\* (the conflict target of the upserts) rejects a second row, the error is
\* returned and not looked at
InsertRow(email, credits) ==
    IF HasRow(email) THEN user_credits ELSE Upsert(email, credits)

\* the update without its filter on the email: every row is written
UpdateRowUnfiltered(email, credits) ==
    IF HasRow(email) THEN [e \in DOMAIN user_credits |-> credits] ELSE user_credits

\* supabase.from('user_credits').update({credits}).eq('email', email)
UpdateRow(email, credits) ==
    IF HasRow(email) THEN Upsert(email, credits) ELSE user_credits

\* supabase.from('credit_transactions').insert(row)
InsertTxn(row) == credit_transactions (+) SetToBag({row})

\* number of credit_transactions rows with this stripe_session_id
SessionRows(sessionId) ==
    LET S == {r \in BagToSet(credit_transactions) : r.stripe_session_id = sessionId}
        RECURSIVE Count(_)
        Count(T) == IF T = {} THEN 0
                    ELSE LET r == CHOOSE x \in T : TRUE
                         IN CopiesIn(r, credit_transactions) + Count(T \ {r})
    IN Count(S)

\* .select('id').eq('stripe_session_id', sessionId).single(): data is the row
\* when exactly one row matches, null otherwise
Existing(sessionId) == SessionRows(sessionId) = 1

Finish(p, status, credits) ==
    /\ pc' = [pc EXCEPT ![p] = "done"]
    /\ req' = [req EXCEPT ![p].status = status, ![p].credits = credits]

Goto(p, label) == pc' = [pc EXCEPT ![p] = label]

\* a request arrives at the next free handler; handlers are numbered in the
\* order in which their requests arrive
Arrives(p) ==
    /\ pc[p] = "idle"
    /\ \A q \in Procs : q < p => pc[q] # "idle"

\* the request as it arrives: `after` holds the handlers that have answered
\* by then
NewReq == [NoReq EXCEPT !.after = {q \in Procs : pc[q] = "done"}]

\* ---------------------------------------------------------------------
\* Init
\* ---------------------------------------------------------------------

\* u1 has signed in before (row and welcome grant written by get-credits),
\* u2 has never been seen; no checkout is paid yet
InitUserCredits == [e \in {"u1"} |-> SignupBonus]

Init ==
    /\ user_credits = InitUserCredits
    /\ credit_transactions = SetToBag({Txn("u1", SignupBonus, "free_grant", Null)})
    /\ profiles = [u \in Users |->
          [credits_remaining |-> ProfileDefaultCredits, subscription_plan |-> "free",
           credits |-> 0]]
    /\ payment_history = EmptyBag
    /\ payment_sessions = EmptyBag
    /\ paid = {}
    /\ pc = [p \in Procs |-> "idle"]
    /\ req = [p \in Procs |-> NoReq]

\* the check of the payment status left out
PaymentNotCompletedSkipped(s) == FALSE

\* if (session.payment_status !== 'paid')
PaymentNotCompleted(s) == s \notin paid

\* the payment provider completes a checkout
PaymentCompleted(s) ==
    /\ s \notin paid
    /\ paid' = paid \cup {s}
    /\ UNCHANGED <<user_credits, credit_transactions, profiles, payment_history, payment_sessions, pc, req>>

\* ---------------------------------------------------------------------
\* get-credits edge function
\* ---------------------------------------------------------------------

GetCreditsSelect(p, u) ==
    /\ Arrives(p)
    /\ IF HasRow(u)
       THEN /\ pc' = [pc EXCEPT ![p] = "done"]
            /\ req' = [req EXCEPT ![p] = [NewReq EXCEPT !.kind = "get-credits",
                           !.email = u, !.status = "ok", !.credits = user_credits[u]]]
       ELSE /\ pc' = [pc EXCEPT ![p] = "gc_insert_row"]
            /\ req' = [req EXCEPT ![p] = [NewReq EXCEPT !.kind = "get-credits", !.email = u]]
    /\ UNCHANGED <<user_credits, credit_transactions, profiles, payment_history, payment_sessions, paid>>

GetCreditsInsertRow(p) ==
    /\ pc[p] = "gc_insert_row"
    /\ user_credits' = InsertRow(req[p].email, SignupBonus)
    /\ Goto(p, "gc_insert_txn")
    /\ UNCHANGED <<credit_transactions, profiles, payment_history, payment_sessions, paid, req>>

GetCreditsInsertTxn(p) ==
    /\ pc[p] = "gc_insert_txn"
    /\ credit_transactions' = InsertTxn(Txn(req[p].email, SignupBonus, "free_grant", Null))
    /\ Finish(p, "ok", SignupBonus)
    /\ UNCHANGED <<user_credits, profiles, payment_history, payment_sessions, paid>>

\* ---------------------------------------------------------------------
\* deduct-credits edge function
\* ---------------------------------------------------------------------

\* the check only looks whether any credits are left
InsufficientNoneLeft(current, amount) == current <= 0

\* if (current < amount)
Insufficient(current, amount) == current < amount

DeductSelect(p, email, amount) ==
    /\ Arrives(p)
    /\ LET current == CreditsOrZero(email)
           r == [NewReq EXCEPT !.kind = "deduct-credits", !.email = email,
                              !.amount = amount]
       IN IF Insufficient(current, amount)
          THEN /\ pc' = [pc EXCEPT ![p] = "done"]
               /\ req' = [req EXCEPT ![p] = [r EXCEPT !.status = "insufficient"]]
          ELSE /\ pc' = [pc EXCEPT ![p] = "dc_upsert"]
               /\ req' = [req EXCEPT ![p] = [r EXCEPT !.newTotal = current - amount]]
    /\ UNCHANGED <<user_credits, credit_transactions, profiles, payment_history, payment_sessions, paid>>

DeductUpsert(p) ==
    /\ pc[p] = "dc_upsert"
    /\ user_credits' = Upsert(req[p].email, req[p].newTotal)
    /\ Goto(p, "dc_insert")
    /\ UNCHANGED <<credit_transactions, profiles, payment_history, payment_sessions, paid, req>>

DeductInsertTxn(p) ==
    /\ pc[p] = "dc_insert"
    /\ credit_transactions' = InsertTxn(Txn(req[p].email, -req[p].amount, "usage", Null))
    /\ Finish(p, "success", req[p].newTotal)
    /\ UNCHANGED <<user_credits, profiles, payment_history, payment_sessions, paid>>

\* ---------------------------------------------------------------------
\* payments-verify edge function (browser return path)
\* ---------------------------------------------------------------------

\* stripe.checkout.sessions.retrieve(sessionId), payment_status check
VerifyRetrieve(p, s) ==
    /\ Arrives(p)
    /\ LET r == [NewReq EXCEPT !.kind = "payments-verify", !.sessionId = s,
                     !.email = StripeSession(s).customer_email,
                     !.amount = CreditsToAdd(StripeSession(s).plan)]
       IN IF PaymentNotCompleted(s)
          THEN /\ pc' = [pc EXCEPT ![p] = "done"]
               /\ req' = [req EXCEPT ![p] = [r EXCEPT !.status = "not_completed"]]
          ELSE /\ pc' = [pc EXCEPT ![p] = "pv_existing"]
               /\ req' = [req EXCEPT ![p] = r]
    /\ UNCHANGED <<user_credits, credit_transactions, profiles, payment_history, payment_sessions, paid>>

\* Check if already credited
VerifyExisting(p) ==
    /\ pc[p] = "pv_existing"
    /\ IF Existing(req[p].sessionId)
       THEN Goto(p, "pv_read_existing")
       ELSE Goto(p, "pv_read")
    /\ UNCHANGED <<user_credits, credit_transactions, profiles, payment_history, payment_sessions, paid, req>>

VerifyReadExisting(p) ==
    /\ pc[p] = "pv_read_existing"
    /\ Finish(p, "alreadyCredited", CreditsOrZero(req[p].email))
    /\ UNCHANGED <<user_credits, credit_transactions, profiles, payment_history, payment_sessions, paid>>

\* const newTotal = (currentCredits?.credits || 0) + creditsToAdd
VerifyRead(p) ==
    /\ pc[p] = "pv_read"
    /\ req' = [req EXCEPT ![p].newTotal = CreditsOrZero(req[p].email) + req[p].amount]
    /\ Goto(p, "pv_upsert")
    /\ UNCHANGED <<user_credits, credit_transactions, profiles, payment_history, payment_sessions, paid>>

VerifyUpsert(p) ==
    /\ pc[p] = "pv_upsert"
    /\ user_credits' = Upsert(req[p].email, req[p].newTotal)
    /\ Goto(p, "pv_insert")
    /\ UNCHANGED <<credit_transactions, profiles, payment_history, payment_sessions, paid, req>>

VerifyInsertTxn(p) ==
    /\ pc[p] = "pv_insert"
    /\ credit_transactions' =
          InsertTxn(Txn(req[p].email, req[p].amount, "purchase", req[p].sessionId))
    /\ Finish(p, "added", req[p].newTotal)
    /\ UNCHANGED <<user_credits, profiles, payment_history, payment_sessions, paid>>

\* the insert of the purchase entry fails in storage: the client library
\* resolves with {error}, which the handler does not read, so no entry is
\* written and the answer is still {added, credits}
VerifyInsertTxnFails(p) ==
    /\ pc[p] = "pv_insert"
    /\ pc' = [pc EXCEPT ![p] = "done"]
    /\ req' = [req EXCEPT ![p].status = "added", ![p].credits = req[p].newTotal,
                          ![p].fault = "insert"]
    /\ UNCHANGED <<user_credits, credit_transactions, profiles, payment_history,
                   payment_sessions, paid>>

\* reconcile over the browser return path, with the storage failure
NextRetry ==
    \/ \E s \in SessionIds : PaymentCompleted(s)
    \/ \E p \in Procs, s \in SessionIds : VerifyRetrieve(p, s)
    \/ \E p \in Procs : VerifyExisting(p)
    \/ \E p \in Procs : VerifyReadExisting(p)
    \/ \E p \in Procs : VerifyRead(p)
    \/ \E p \in Procs : VerifyUpsert(p)
    \/ \E p \in Procs : VerifyInsertTxn(p)
    \/ \E p \in Procs : VerifyInsertTxnFails(p)

SpecRetry == Init /\ [][NextRetry]_vars

\* ---------------------------------------------------------------------
\* stripe-webhook edge function (checkout.session.completed)
\* ---------------------------------------------------------------------

\* the event carries the session; an unpaid session is acknowledged only
WebhookReceive(p, s) ==
    /\ Arrives(p)
    /\ LET r == [NewReq EXCEPT !.kind = "stripe-webhook", !.sessionId = s,
                     !.email = StripeSession(s).customer_email,
                     !.amount = CreditsToAdd(StripeSession(s).plan)]
       IN IF PaymentNotCompleted(s)
          THEN /\ pc' = [pc EXCEPT ![p] = "done"]
               /\ req' = [req EXCEPT ![p] = [r EXCEPT !.status = "received"]]
          ELSE /\ pc' = [pc EXCEPT ![p] = "wh_existing"]
               /\ req' = [req EXCEPT ![p] = r]
    /\ UNCHANGED <<user_credits, credit_transactions, profiles, payment_history, payment_sessions, paid>>

\* Check if already credited: if (!existing) { ... }
WebhookExisting(p) ==
    /\ pc[p] = "wh_existing"
    /\ IF Existing(req[p].sessionId)
       THEN Finish(p, "received", NoCredits)
       ELSE /\ Goto(p, "wh_read")
            /\ UNCHANGED req
    /\ UNCHANGED <<user_credits, credit_transactions, profiles, payment_history, payment_sessions, paid>>

WebhookRead(p) ==
    /\ pc[p] = "wh_read"
    /\ req' = [req EXCEPT ![p].newTotal = CreditsOrZero(req[p].email) + req[p].amount]
    /\ Goto(p, "wh_upsert")
    /\ UNCHANGED <<user_credits, credit_transactions, profiles, payment_history, payment_sessions, paid>>

WebhookUpsert(p) ==
    /\ pc[p] = "wh_upsert"
    /\ user_credits' = Upsert(req[p].email, req[p].newTotal)
    /\ Goto(p, "wh_insert")
    /\ UNCHANGED <<credit_transactions, profiles, payment_history, payment_sessions, paid, req>>

WebhookInsertTxn(p) ==
    /\ pc[p] = "wh_insert"
    /\ credit_transactions' =
          InsertTxn(Txn(req[p].email, req[p].amount, "purchase", req[p].sessionId))
    /\ Finish(p, "credited", req[p].newTotal)
    /\ UNCHANGED <<user_credits, profiles, payment_history, payment_sessions, paid>>

\* ---------------------------------------------------------------------
\* Browser context (src/context/AuthContext.tsx): fetchCredits, deductCredit
\* ---------------------------------------------------------------------

\* fetchCredits: setCredits(data.credits), or setCredits(0) without a row;
\* the cached value is kept in req.credits
ClientFetchCredits(p, u) ==
    /\ Arrives(p)
    /\ req' = [req EXCEPT ![p] = [NewReq EXCEPT !.kind = "deductCredit",
                   !.email = u, !.credits = CreditsOrZero(u)]]
    /\ Goto(p, "cl_ready")
    /\ UNCHANGED <<user_credits, credit_transactions, profiles, payment_history, payment_sessions, paid>>

\* deductCredit: the cached credits decide and are written back
ClientDeductUpdate(p, toolKey) ==
    /\ pc[p] = "cl_ready"
    /\ LET amount == TOOL_COSTS(toolKey)
           cached == req[p].credits
       IN IF Insufficient(cached, amount)
          THEN /\ pc' = [pc EXCEPT ![p] = "done"]
               /\ req' = [req EXCEPT ![p].status = "false", ![p].tool = toolKey]
               /\ UNCHANGED user_credits
          ELSE IF ~HasRow(req[p].email)
          THEN /\ pc' = [pc EXCEPT ![p] = "done"]
               /\ req' = [req EXCEPT ![p].status = "false", ![p].tool = toolKey]
               /\ UNCHANGED user_credits
          ELSE /\ user_credits' = UpdateRow(req[p].email, cached - amount)
               /\ req' = [req EXCEPT ![p].amount = amount, ![p].tool = toolKey,
                                     ![p].newTotal = cached - amount]
               /\ Goto(p, "cl_insert")
    /\ UNCHANGED <<credit_transactions, profiles, payment_history, payment_sessions, paid>>

ClientDeductInsertTxn(p) ==
    /\ pc[p] = "cl_insert"
    /\ credit_transactions' = InsertTxn(Txn(req[p].email, -req[p].amount, "usage", Null))
    /\ Finish(p, "true", req[p].newTotal)
    /\ UNCHANGED <<user_credits, profiles, payment_history, payment_sessions, paid>>

\* ---------------------------------------------------------------------
\* Browser context (components/AuthContext.tsx): fetchCredits creates the row
\* ---------------------------------------------------------------------

\* select credits; if (error || !data) the user is taken to be new
ComponentFetchSelect(p, u) ==
    /\ Arrives(p)
    /\ IF HasRow(u)
       THEN /\ pc' = [pc EXCEPT ![p] = "done"]
            /\ req' = [req EXCEPT ![p] = [NewReq EXCEPT !.kind = "fetchCredits",
                           !.email = u, !.status = "ok", !.credits = user_credits[u]]]
       ELSE /\ pc' = [pc EXCEPT ![p] = "fc_insert"]
            /\ req' = [req EXCEPT ![p] = [NewReq EXCEPT !.kind = "fetchCredits", !.email = u]]
    /\ UNCHANGED <<user_credits, credit_transactions, profiles, payment_history, payment_sessions, paid>>

\* insert({email, credits: 100}); setCredits(100); no ledger entry is written
ComponentFetchInsert(p) ==
    /\ pc[p] = "fc_insert"
    /\ user_credits' = InsertRow(req[p].email, SignupBonus)
    /\ Finish(p, "ok", SignupBonus)
    /\ UNCHANGED <<credit_transactions, profiles, payment_history, payment_sessions, paid>>

\* ---------------------------------------------------------------------
\* Express backend: POST /api/credits/deduct and StripeService.deductCredits
\* ---------------------------------------------------------------------

\* requireAuth loads the profile into req.user; the route checks the tool and
\* pre-checks the cost against that snapshot
DeductRouteAuth(p, u, tool) ==
    /\ Arrives(p)
    /\ LET snapshot == profiles[u].credits_remaining
           cost == RouteToolCost(tool)
           r == [NewReq EXCEPT !.kind = "credits-deduct", !.email = u, !.tool = tool,
                              !.amount = cost, !.credits = snapshot]
       IN IF cost = 0
          THEN /\ pc' = [pc EXCEPT ![p] = "done"]
               /\ req' = [req EXCEPT ![p] = [r EXCEPT !.status = "unknown_tool"]]
          ELSE IF Insufficient(snapshot, cost)
          THEN /\ pc' = [pc EXCEPT ![p] = "done"]
               /\ req' = [req EXCEPT ![p] = [r EXCEPT !.status = "not_enough_credits"]]
          ELSE /\ pc' = [pc EXCEPT ![p] = "dr_select"]
               /\ req' = [req EXCEPT ![p] = r]
    /\ UNCHANGED <<user_credits, credit_transactions, profiles, payment_history, payment_sessions, paid>>

\* StripeService.deductCredits: select and check; success=false makes the
\* route answer 500 'Failed to deduct credits.'
DeductRouteSelect(p) ==
    /\ pc[p] = "dr_select"
    /\ LET current == profiles[req[p].email].credits_remaining
       IN IF Insufficient(current, req[p].amount)
          THEN Finish(p, "failed_to_deduct", current)
          ELSE /\ req' = [req EXCEPT ![p].newTotal = current - req[p].amount]
               /\ Goto(p, "dr_update")
    /\ UNCHANGED <<user_credits, credit_transactions, profiles, payment_history, payment_sessions, paid>>

\* StripeService.deductCredits: update
DeductRouteUpdate(p) ==
    /\ pc[p] = "dr_update"
    /\ profiles' = [profiles EXCEPT ![req[p].email].credits_remaining = req[p].newTotal]
    /\ Goto(p, "dr_log")
    /\ UNCHANGED <<user_credits, credit_transactions, payment_history, payment_sessions, paid, req>>

\* Log to credit_transactions for history
DeductRouteLog(p) ==
    /\ pc[p] = "dr_log"
    /\ credit_transactions' = InsertTxn(Txn(req[p].email, -req[p].amount, "usage", Null))
    /\ Finish(p, "success", req[p].newTotal)
    /\ UNCHANGED <<user_credits, profiles, payment_history, payment_sessions, paid>>

\* ---------------------------------------------------------------------
\* Express backend: StripeService.addCredits and SupabaseService.savePayment
\* ---------------------------------------------------------------------

\* plan label written by addCredits: the new plan if it is a higher tier
UpgradePlan(currentPlan, plan) ==
    IF planOrder(plan) > planOrder(currentPlan) THEN plan ELSE Null

\* addCredits: select credits_remaining, subscription_plan
AddCreditsSelect(p) ==
    LET profile == profiles[req[p].email]
    IN req' = [req EXCEPT ![p].newTotal = profile.credits_remaining + req[p].amount,
                          ![p].plan = UpgradePlan(profile.subscription_plan,
                                          StripeSession(req[p].sessionId).plan_name)]

\* addCredits: update(updateData)
AddCreditsUpdate(p) ==
    profiles' = [profiles EXCEPT ![req[p].email] =
        [credits_remaining |-> req[p].newTotal,
         subscription_plan |-> IF req[p].plan = Null THEN @.subscription_plan
                               ELSE req[p].plan,
         credits |-> @.credits]]

\* savePayment: insert into payment_history (stripe_invoice_id = session id)
SavePayment(p) ==
    payment_history' = payment_history (+)
        SetToBag({[user_id |-> req[p].email, stripe_invoice_id |-> req[p].sessionId]})

\* the table 'transactions' that verifyPayment looks the session up in: no
\* statement of the repository inserts into it
transactions == {}

\* .from('transactions').select('id').eq('stripe_invoice_id', sessionId).maybeSingle()
ExistingRecord(sessionId) == \E r \in transactions : r.stripe_invoice_id = sessionId

\* ---------------------------------------------------------------------
\* Express backend: PaymentController.verifyPayment (browser return path)
\* ---------------------------------------------------------------------

VerifyPaymentRetrieve(p, u, s) ==
    /\ Arrives(p)
    /\ LET session == StripeSession(s)
           r == [NewReq EXCEPT !.kind = "verifyPayment", !.email = u, !.sessionId = s,
                              !.amount = PLAN_CONFIG(session.plan_name)]
       IN IF PaymentNotCompleted(s)
          THEN /\ pc' = [pc EXCEPT ![p] = "done"]
               /\ req' = [req EXCEPT ![p] = [r EXCEPT !.status = "not_completed"]]
          ELSE IF session.supabase_user_id # u
          THEN /\ pc' = [pc EXCEPT ![p] = "done"]
               /\ req' = [req EXCEPT ![p] = [r EXCEPT !.status = "not_yours"]]
          ELSE IF PLAN_CONFIG(session.plan_name) = 0
          THEN /\ pc' = [pc EXCEPT ![p] = "done"]
               /\ req' = [req EXCEPT ![p] = [r EXCEPT !.status = "unknown_plan"]]
          ELSE /\ pc' = [pc EXCEPT ![p] = "vp_existing"]
               /\ req' = [req EXCEPT ![p] = r]
    /\ UNCHANGED <<user_credits, credit_transactions, profiles, payment_history, payment_sessions, paid>>

\* Check if we already credited this session
VerifyPaymentExisting(p) ==
    /\ pc[p] = "vp_existing"
    /\ IF ExistingRecord(req[p].sessionId)
       THEN Finish(p, "alreadyCredited", profiles[req[p].email].credits_remaining)
       ELSE /\ Goto(p, "vp_add_select")
            /\ UNCHANGED req
    /\ UNCHANGED <<user_credits, credit_transactions, profiles, payment_history, payment_sessions, paid>>

VerifyPaymentAddSelect(p) ==
    /\ pc[p] = "vp_add_select"
    /\ AddCreditsSelect(p)
    /\ Goto(p, "vp_add_update")
    /\ UNCHANGED <<user_credits, credit_transactions, profiles, payment_history, payment_sessions, paid>>

VerifyPaymentAddUpdate(p) ==
    /\ pc[p] = "vp_add_update"
    /\ AddCreditsUpdate(p)
    /\ Goto(p, "vp_save")
    /\ UNCHANGED <<user_credits, credit_transactions, payment_history, payment_sessions, paid, req>>

VerifyPaymentSave(p) ==
    /\ pc[p] = "vp_save"
    /\ SavePayment(p)
    /\ Goto(p, "vp_updated")
    /\ UNCHANGED <<user_credits, credit_transactions, profiles, payment_sessions, paid, req>>

\* Get updated credits and answer {credits, plan, added}
VerifyPaymentUpdated(p) ==
    /\ pc[p] = "vp_updated"
    /\ Finish(p, "added", profiles[req[p].email].credits_remaining)
    /\ UNCHANGED <<user_credits, credit_transactions, profiles, payment_history, payment_sessions, paid>>

\* ---------------------------------------------------------------------
\* Express backend: StripeService.handleCheckoutCompleted (webhook path)
\* ---------------------------------------------------------------------

\* checkout.session.completed is delivered for a session whose checkout
\* finished; checkout takes cards only (payment_method_types: ['card']), so
\* the session is paid by then. Stripe may deliver the event more than once.
CheckoutCompletedReceive(p, s) ==
    /\ Arrives(p)
    /\ s \in paid
    /\ LET session == StripeSession(s)
           r == [NewReq EXCEPT !.kind = "handleCheckoutCompleted",
                              !.email = session.supabase_user_id, !.sessionId = s,
                              !.amount = PLAN_CONFIG(session.plan_name)]
       IN IF session.plan_name = Null \/ PLAN_CONFIG(session.plan_name) = 0
          THEN /\ pc' = [pc EXCEPT ![p] = "done"]
               /\ req' = [req EXCEPT ![p] = [r EXCEPT !.status = "ignored"]]
          ELSE /\ pc' = [pc EXCEPT ![p] = "hc_add_select"]
               /\ req' = [req EXCEPT ![p] = r]
    /\ UNCHANGED <<user_credits, credit_transactions, profiles, payment_history, payment_sessions, paid>>

CheckoutCompletedAddSelect(p) ==
    /\ pc[p] = "hc_add_select"
    /\ AddCreditsSelect(p)
    /\ Goto(p, "hc_add_update")
    /\ UNCHANGED <<user_credits, credit_transactions, profiles, payment_history, payment_sessions, paid>>

CheckoutCompletedAddUpdate(p) ==
    /\ pc[p] = "hc_add_update"
    /\ AddCreditsUpdate(p)
    /\ Goto(p, "hc_save")
    /\ UNCHANGED <<user_credits, credit_transactions, payment_history, payment_sessions, paid, req>>

CheckoutCompletedSave(p) ==
    /\ pc[p] = "hc_save"
    /\ SavePayment(p)
    /\ Finish(p, "credited", req[p].newTotal)
    /\ UNCHANGED <<user_credits, credit_transactions, profiles, payment_sessions, paid>>

\* ---------------------------------------------------------------------
\* Express backend: SupabaseService.deductCredits (called by the AI routes)
\* ---------------------------------------------------------------------

\* tools the AI routes charge for
ServiceTools == {"photo_animator"}

\* TOOL_CREDIT_COSTS[toolName] || 1
TOOL_CREDIT_COSTS(toolName) ==
    CASE toolName = "general_intelligence" -> 1
      [] toolName = "image_creator"        -> 5
      [] toolName = "image_cloner"         -> 5
      [] toolName = "image_analyzer"       -> 2
      [] toolName = "photo_animator"       -> 10
      [] toolName = "prompt_video"         -> 10
      [] toolName = "video_analyzer"       -> 3
      [] toolName = "voice_chat"           -> 2
      [] toolName = "audio_transcriber"    -> 2
      [] toolName = "image_editor"         -> 3
      [] OTHER                             -> 1

\* getUserProfile and the check against the cost
ServiceDeductSelect(p, u, toolName) ==
    /\ Arrives(p)
    /\ LET current == profiles[u].credits_remaining
           cost == TOOL_CREDIT_COSTS(toolName)
           r == [NewReq EXCEPT !.kind = "deductCredits", !.email = u,
                              !.tool = toolName, !.amount = cost]
       IN IF Insufficient(current, cost)
          THEN /\ pc' = [pc EXCEPT ![p] = "done"]
               /\ req' = [req EXCEPT ![p] = [r EXCEPT !.status = "insufficient",
                                                    !.credits = current]]
          ELSE /\ pc' = [pc EXCEPT ![p] = "sd_update"]
               /\ req' = [req EXCEPT ![p] = [r EXCEPT !.newTotal = current - cost]]
    /\ UNCHANGED <<user_credits, credit_transactions, profiles, payment_history, payment_sessions, paid>>

\* update({credits_remaining: profile.credits_remaining - creditsToDeduct})
ServiceDeductUpdate(p) ==
    /\ pc[p] = "sd_update"
    /\ profiles' = [profiles EXCEPT ![req[p].email].credits_remaining = req[p].newTotal]
    /\ Finish(p, "success", req[p].newTotal)
    /\ UNCHANGED <<user_credits, credit_transactions, payment_history, payment_sessions, paid>>

\* ---------------------------------------------------------------------
\* Browser context on profiles (fetchCredits, deductCredit of one credit)
\* ---------------------------------------------------------------------

\* fetchCredits: setCredits(data.credits_remaining)
ProfileFetchCredits(p, u) ==
    /\ Arrives(p)
    /\ req' = [req EXCEPT ![p] = [NewReq EXCEPT !.kind = "deductCredit-profiles",
                   !.email = u, !.amount = 1, !.credits = profiles[u].credits_remaining]]
    /\ Goto(p, "pf_ready")
    /\ UNCHANGED <<user_credits, credit_transactions, profiles, payment_history, payment_sessions, paid>>

\* deductCredit: if (credits <= 0) return false; update({credits_remaining: credits - 1})
ProfileDeductCredit(p) ==
    /\ pc[p] = "pf_ready"
    /\ IF req[p].credits <= 0
       THEN /\ Finish(p, "false", req[p].credits)
            /\ UNCHANGED profiles
       ELSE /\ profiles' = [profiles EXCEPT
                   ![req[p].email].credits_remaining = req[p].credits - 1]
            /\ Finish(p, "true", req[p].credits - 1)
    /\ UNCHANGED <<user_credits, credit_transactions, payment_history, payment_sessions, paid>>

\* ---------------------------------------------------------------------
\* Tool actions: the debit and the call of the AI provider
\* ---------------------------------------------------------------------

\* the debit of the tool action of handler p has returned success
DebitSucceeded(p) ==
    /\ pc[p] = "done"
    /\ \/ req[p].kind = "deductCredits" /\ req[p].status = "success"
       \/ req[p].kind = "deductCredit" /\ req[p].status = "true"

\* GeminiController.chat and ImageCreator.handleGenerate reach the provider
\* call behind the return on a failed debit
CallsProvider(p) == DebitSucceeded(p) /\ req[p].ai = "none"

\* the provider call returns: the result is answered or shown
ProviderSucceeds(p) ==
    /\ CallsProvider(p)
    /\ req' = [req EXCEPT ![p].ai = "ok"]
    /\ UNCHANGED <<user_credits, credit_transactions, profiles, payment_history, payment_sessions, paid, pc>>

\* a handler that gives the cost back when the provider call throws
ProviderFailsRefund(p) ==
    /\ CallsProvider(p)
    /\ req' = [req EXCEPT ![p].ai = "failed"]
    /\ IF req[p].kind = "deductCredits"
       THEN /\ profiles' = [profiles EXCEPT
                   ![req[p].email].credits_remaining = @ + req[p].amount]
            /\ UNCHANGED user_credits
       ELSE /\ user_credits' = UpdateRow(req[p].email,
                                         CreditsOrZero(req[p].email) + req[p].amount)
            /\ UNCHANGED profiles
    /\ UNCHANGED <<credit_transactions, payment_history, payment_sessions, paid, pc>>

\* the provider call throws or times out: chat answers 500 'Failed to generate
\* response', handleGenerate logs 'Generation failed'; neither writes
ProviderFails(p) ==
    /\ CallsProvider(p)
    /\ req' = [req EXCEPT ![p].ai = "failed"]
    /\ UNCHANGED <<user_credits, credit_transactions, profiles, payment_history, payment_sessions, paid, pc>>

\* GeminiService.analyzeImage of the browser: ai.models.generateContent is
\* called first; when it throws, analyzeImage throws
AnalyzeImageCall(p, u) ==
    /\ Arrives(p)
    /\ \/ /\ req' = [req EXCEPT ![p] = [NewReq EXCEPT !.kind = "analyzeImage",
                         !.email = u, !.tool = "image_analyzer", !.ai = "ok"]]
          /\ pc' = [pc EXCEPT ![p] = "ai_deduct"]
       \/ /\ req' = [req EXCEPT ![p] = [NewReq EXCEPT !.kind = "analyzeImage",
                         !.email = u, !.tool = "image_analyzer", !.ai = "failed",
                         !.status = "error"]]
          /\ pc' = [pc EXCEPT ![p] = "done"]
    /\ UNCHANGED <<user_credits, credit_transactions, profiles, payment_history, payment_sessions, paid>>

\* await deductCredit('image_analyzer') after the provider answered: it posts
\* {tool} to deduct-credits, which reads email and amount from the body. Both
\* are undefined, so the select matches no row and the upsert and the insert
\* carry no email: no user's row and no user's ledger entry is written.
\* deductCredit returns nothing and catches every error; the analysis is
\* returned whatever the outcome.
AnalyzeImageDeduct(p) ==
    /\ pc[p] = "ai_deduct"
    /\ pc' = [pc EXCEPT ![p] = "done"]
    /\ req' = [req EXCEPT ![p].status = "returned"]
    /\ UNCHANGED <<user_credits, credit_transactions, profiles, payment_history, payment_sessions, paid>>

NextTools ==
    \/ \E p \in Procs, u \in Users, t \in ServiceTools : ServiceDeductSelect(p, u, t)
    \/ \E p \in Procs : ServiceDeductUpdate(p)
    \/ \E p \in Procs, u \in Users : ClientFetchCredits(p, u)
    \/ \E p \in Procs, t \in ClientTools : ClientDeductUpdate(p, t)
    \/ \E p \in Procs : ClientDeductInsertTxn(p)
    \/ \E p \in Procs : ProviderSucceeds(p)
    \/ \E p \in Procs : ProviderFails(p)
    \/ \E p \in Procs, u \in Users : AnalyzeImageCall(p, u)
    \/ \E p \in Procs : AnalyzeImageDeduct(p)

SpecTools == Init /\ [][NextTools]_vars

\* ---------------------------------------------------------------------
\* verify-payment edge function (browser return path, profiles.credits)
\* ---------------------------------------------------------------------

\* CREDITS_MAP[plan] || 0
CREDITS_MAP(plan) ==
    CASE plan = "personal" -> 600
      [] plan = "creator"  -> 1800
      [] plan = "studio"   -> 5000
      [] plan = "flex"     -> 125
      [] OTHER             -> 0

\* .from("payment_sessions").select("id").eq("session_id", sessionId).single()
ExistingSession(sessionId) ==
    Cardinality({r \in BagToSet(payment_sessions) : r.session_id = sessionId}) = 1
    /\ \A r \in BagToSet(payment_sessions) :
          r.session_id = sessionId => CopiesIn(r, payment_sessions) = 1

\* the caller u is the user of the bearer token; the session is retrieved
\* by the id in the body and only its payment_status and plan are read
VerifyFnRetrieve(p, u, s) ==
    /\ Arrives(p)
    /\ LET r == [NewReq EXCEPT !.kind = "verify-payment", !.email = u, !.sessionId = s,
                              !.plan = StripeSession(s).plan,
                              !.amount = CREDITS_MAP(StripeSession(s).plan)]
       IN IF PaymentNotCompleted(s)
          THEN /\ pc' = [pc EXCEPT ![p] = "done"]
               /\ req' = [req EXCEPT ![p] = [r EXCEPT !.status = "not_completed"]]
          ELSE /\ pc' = [pc EXCEPT ![p] = "vf_existing"]
               /\ req' = [req EXCEPT ![p] = r]
    /\ UNCHANGED <<user_credits, credit_transactions, profiles, payment_history,
                   payment_sessions, paid>>

\* Check if already credited
VerifyFnExisting(p) ==
    /\ pc[p] = "vf_existing"
    /\ IF ExistingSession(req[p].sessionId)
       THEN Goto(p, "vf_read_existing")
       ELSE Goto(p, "vf_read")
    /\ UNCHANGED <<user_credits, credit_transactions, profiles, payment_history,
                   payment_sessions, paid, req>>

VerifyFnReadExisting(p) ==
    /\ pc[p] = "vf_read_existing"
    /\ Finish(p, "alreadyCredited", profiles[req[p].email].credits)
    /\ UNCHANGED <<user_credits, credit_transactions, profiles, payment_history,
                   payment_sessions, paid>>

\* const newCredits = (profile?.credits || 0) + creditsToAdd
VerifyFnRead(p) ==
    /\ pc[p] = "vf_read"
    /\ req' = [req EXCEPT ![p].newTotal = profiles[req[p].email].credits + req[p].amount]
    /\ Goto(p, "vf_update")
    /\ UNCHANGED <<user_credits, credit_transactions, profiles, payment_history,
                   payment_sessions, paid>>

VerifyFnUpdate(p) ==
    /\ pc[p] = "vf_update"
    /\ profiles' = [profiles EXCEPT ![req[p].email].credits = req[p].newTotal]
    /\ Goto(p, "vf_insert")
    /\ UNCHANGED <<user_credits, credit_transactions, payment_history, payment_sessions,
                   paid, req>>

\* Record session to prevent double-crediting
VerifyFnInsert(p) ==
    /\ pc[p] = "vf_insert"
    /\ payment_sessions' = payment_sessions (+)
          SetToBag({[session_id |-> req[p].sessionId, user_id |-> req[p].email,
                     plan |-> req[p].plan, credits_added |-> req[p].amount]})
    /\ Finish(p, "added", req[p].newTotal)
    /\ UNCHANGED <<user_credits, credit_transactions, profiles, payment_history, paid>>

NextVerifyFn ==
    \/ \E s \in SessionIds : PaymentCompleted(s)
    \/ \E p \in Procs, u \in Users, s \in SessionIds : VerifyFnRetrieve(p, u, s)
    \/ \E p \in Procs : VerifyFnExisting(p)
    \/ \E p \in Procs : VerifyFnReadExisting(p)
    \/ \E p \in Procs : VerifyFnRead(p)
    \/ \E p \in Procs : VerifyFnUpdate(p)
    \/ \E p \in Procs : VerifyFnInsert(p)

SpecVerifyFn == Init /\ [][NextVerifyFn]_vars

NextExpress ==
    \/ \E s \in SessionIds : PaymentCompleted(s)
    \/ \E p \in Procs, u \in Users, t \in RouteTools : DeductRouteAuth(p, u, t)
    \/ \E p \in Procs : DeductRouteSelect(p)
    \/ \E p \in Procs : DeductRouteUpdate(p)
    \/ \E p \in Procs : DeductRouteLog(p)
    \/ \E p \in Procs, u \in Users, s \in SessionIds : VerifyPaymentRetrieve(p, u, s)
    \/ \E p \in Procs : VerifyPaymentExisting(p)
    \/ \E p \in Procs : VerifyPaymentAddSelect(p)
    \/ \E p \in Procs : VerifyPaymentAddUpdate(p)
    \/ \E p \in Procs : VerifyPaymentSave(p)
    \/ \E p \in Procs : VerifyPaymentUpdated(p)
    \/ \E p \in Procs, s \in SessionIds : CheckoutCompletedReceive(p, s)
    \/ \E p \in Procs : CheckoutCompletedAddSelect(p)
    \/ \E p \in Procs : CheckoutCompletedAddUpdate(p)
    \/ \E p \in Procs : CheckoutCompletedSave(p)
    \/ \E p \in Procs, u \in Users, t \in ServiceTools : ServiceDeductSelect(p, u, t)
    \/ \E p \in Procs : ServiceDeductUpdate(p)
    \/ \E p \in Procs, u \in Users : ProfileFetchCredits(p, u)
    \/ \E p \in Procs : ProfileDeductCredit(p)

SpecExpress == Init /\ [][NextExpress]_vars

\* the principal whose token accompanies every debit request of SpecCaller
Caller == "u2"

\* debit requests of one signed-in principal: deduct-credits reads the
\* account from the body and no token; the Express route takes the account
\* from the token verified by requireAuth
NextCaller ==
    \/ \E p \in Procs, e \in Users, a \in BodyAmounts : DeductSelect(p, e, a)
    \/ \E p \in Procs : DeductUpsert(p)
    \/ \E p \in Procs : DeductInsertTxn(p)
    \/ \E p \in Procs, t \in RouteTools : DeductRouteAuth(p, Caller, t)
    \/ \E p \in Procs : DeductRouteSelect(p)
    \/ \E p \in Procs : DeductRouteUpdate(p)
    \/ \E p \in Procs : DeductRouteLog(p)

SpecCaller == Init /\ [][NextCaller]_vars

\* GET /api/credits/balance: credits: profile?.credits_remaining ?? 0
BalanceRouteSelect(p, u) ==
    /\ Arrives(p)
    /\ pc' = [pc EXCEPT ![p] = "done"]
    /\ req' = [req EXCEPT ![p] = [NewReq EXCEPT !.kind = "credits-balance", !.email = u,
                   !.status = "ok", !.credits = profiles[u].credits_remaining]]
    /\ UNCHANGED <<user_credits, credit_transactions, profiles, payment_history,
                   payment_sessions, paid>>

\* the balance reads of the edge functions and of the Express backend, with
\* the verify-payment credit
NextStores ==
    \/ \E s \in SessionIds : PaymentCompleted(s)
    \/ \E p \in Procs, u \in Users : GetCreditsSelect(p, u)
    \/ \E p \in Procs : GetCreditsInsertRow(p)
    \/ \E p \in Procs : GetCreditsInsertTxn(p)
    \/ \E p \in Procs, u \in Users : BalanceRouteSelect(p, u)
    \/ \E p \in Procs, u \in Users, s \in SessionIds : VerifyFnRetrieve(p, u, s)
    \/ \E p \in Procs : VerifyFnExisting(p)
    \/ \E p \in Procs : VerifyFnReadExisting(p)
    \/ \E p \in Procs : VerifyFnRead(p)
    \/ \E p \in Procs : VerifyFnUpdate(p)
    \/ \E p \in Procs : VerifyFnInsert(p)

SpecStores == Init /\ [][NextStores]_vars

\* every reconcile trigger of the repository, for a payment of each plan; the
\* authenticated triggers are called by the customer of the session
NextTriggers ==
    \/ \E s \in EachPlanSessionIds : PaymentCompleted(s)
    \/ \E p \in Procs, s \in EachPlanSessionIds : VerifyRetrieve(p, s)
    \/ \E p \in Procs : VerifyExisting(p)
    \/ \E p \in Procs : VerifyReadExisting(p)
    \/ \E p \in Procs : VerifyRead(p)
    \/ \E p \in Procs : VerifyUpsert(p)
    \/ \E p \in Procs : VerifyInsertTxn(p)
    \/ \E p \in Procs, s \in EachPlanSessionIds : WebhookReceive(p, s)
    \/ \E p \in Procs : WebhookExisting(p)
    \/ \E p \in Procs : WebhookRead(p)
    \/ \E p \in Procs : WebhookUpsert(p)
    \/ \E p \in Procs : WebhookInsertTxn(p)
    \/ \E p \in Procs, s \in EachPlanSessionIds :
          VerifyFnRetrieve(p, StripeSession(s).customer_email, s)
    \/ \E p \in Procs : VerifyFnExisting(p)
    \/ \E p \in Procs : VerifyFnReadExisting(p)
    \/ \E p \in Procs : VerifyFnRead(p)
    \/ \E p \in Procs : VerifyFnUpdate(p)
    \/ \E p \in Procs : VerifyFnInsert(p)
    \/ \E p \in Procs, s \in EachPlanSessionIds :
          VerifyPaymentRetrieve(p, StripeSession(s).supabase_user_id, s)
    \/ \E p \in Procs : VerifyPaymentExisting(p)
    \/ \E p \in Procs : VerifyPaymentAddSelect(p)
    \/ \E p \in Procs : VerifyPaymentAddUpdate(p)
    \/ \E p \in Procs : VerifyPaymentSave(p)
    \/ \E p \in Procs : VerifyPaymentUpdated(p)
    \/ \E p \in Procs, s \in EachPlanSessionIds : CheckoutCompletedReceive(p, s)
    \/ \E p \in Procs : CheckoutCompletedAddSelect(p)
    \/ \E p \in Procs : CheckoutCompletedAddUpdate(p)
    \/ \E p \in Procs : CheckoutCompletedSave(p)

SpecTriggers == Init /\ [][NextTriggers]_vars

\* the tool of the repeated debit
SequentialTools == {"image_creator"}

\* no handler is in the middle of a request
NoneRunning == \A q \in Procs : pc[q] \in {"idle", "done"}

\* the handler that answered is free for the client's next request
NextRequest(p) ==
    /\ pc[p] = "done"
    /\ pc' = [pc EXCEPT ![p] = "idle"]
    /\ req' = [req EXCEPT ![p] = NoReq]
    /\ UNCHANGED <<user_credits, credit_transactions, profiles, payment_history,
                   payment_sessions, paid>>

\* a client sends its next debit once the one before has been answered
SequentialDeductAuth(p, u, tool) ==
    /\ NoneRunning
    /\ DeductRouteAuth(p, u, tool)

\* POST /api/credits/deduct called again and again
NextSequential ==
    \/ \E p \in Procs, u \in Users, t \in SequentialTools : SequentialDeductAuth(p, u, t)
    \/ \E p \in Procs : DeductRouteSelect(p)
    \/ \E p \in Procs : DeductRouteUpdate(p)
    \/ \E p \in Procs : DeductRouteLog(p)
    \/ \E p \in Procs : NextRequest(p)

SpecSequential == Init /\ [][NextSequential]_vars

\* the Express reconcile paths for two purchases of one customer
NextPlans ==
    \/ \E s \in PlanSessionIds : PaymentCompleted(s)
    \/ \E p \in Procs, u \in Users, s \in PlanSessionIds : VerifyPaymentRetrieve(p, u, s)
    \/ \E p \in Procs : VerifyPaymentExisting(p)
    \/ \E p \in Procs : VerifyPaymentAddSelect(p)
    \/ \E p \in Procs : VerifyPaymentAddUpdate(p)
    \/ \E p \in Procs : VerifyPaymentSave(p)
    \/ \E p \in Procs : VerifyPaymentUpdated(p)
    \/ \E p \in Procs, s \in PlanSessionIds : CheckoutCompletedReceive(p, s)
    \/ \E p \in Procs : CheckoutCompletedAddSelect(p)
    \/ \E p \in Procs : CheckoutCompletedAddUpdate(p)
    \/ \E p \in Procs : CheckoutCompletedSave(p)

SpecPlans == Init /\ [][NextPlans]_vars

Next ==
    \/ \E s \in SessionIds : PaymentCompleted(s)
    \/ \E p \in Procs, u \in Users : GetCreditsSelect(p, u)
    \/ \E p \in Procs : GetCreditsInsertRow(p)
    \/ \E p \in Procs : GetCreditsInsertTxn(p)
    \/ \E p \in Procs, e \in Users, a \in BodyAmounts : DeductSelect(p, e, a)
    \/ \E p \in Procs : DeductUpsert(p)
    \/ \E p \in Procs : DeductInsertTxn(p)
    \/ \E p \in Procs, s \in SessionIds : VerifyRetrieve(p, s)
    \/ \E p \in Procs : VerifyExisting(p)
    \/ \E p \in Procs : VerifyReadExisting(p)
    \/ \E p \in Procs : VerifyRead(p)
    \/ \E p \in Procs : VerifyUpsert(p)
    \/ \E p \in Procs : VerifyInsertTxn(p)
    \/ \E p \in Procs, s \in SessionIds : WebhookReceive(p, s)
    \/ \E p \in Procs : WebhookExisting(p)
    \/ \E p \in Procs : WebhookRead(p)
    \/ \E p \in Procs : WebhookUpsert(p)
    \/ \E p \in Procs : WebhookInsertTxn(p)
    \/ \E p \in Procs, u \in Users : ClientFetchCredits(p, u)
    \/ \E p \in Procs, t \in ClientTools : ClientDeductUpdate(p, t)
    \/ \E p \in Procs : ClientDeductInsertTxn(p)
    \/ \E p \in Procs, u \in Users : ComponentFetchSelect(p, u)
    \/ \E p \in Procs : ComponentFetchInsert(p)

Spec == Init /\ [][Next]_vars

\* Both storage schemes. A deployment serves its requests from one scheme:
\* the handlers of the edge functions and the handlers of the Express backend
\* share no balance table, so a run takes its requests from one of the two.
EdgeKinds ==
    {"get-credits", "deduct-credits", "payments-verify", "stripe-webhook", "deductCredit",
     "fetchCredits"}

ExpressKinds ==
    {"credits-deduct", "verifyPayment", "handleCheckoutCompleted", "deductCredits",
     "deductCredit-profiles"}

VerifyFnKinds == {"verify-payment"}

NextAll ==
    \/ (\A p \in Procs : req[p].kind \notin ExpressKinds \cup VerifyFnKinds) /\ Next
    \/ (\A p \in Procs : req[p].kind \notin EdgeKinds \cup VerifyFnKinds) /\ NextExpress
    \/ (\A p \in Procs : req[p].kind \notin EdgeKinds \cup ExpressKinds) /\ NextVerifyFn

SpecAll == Init /\ [][NextAll]_vars

\* ---------------------------------------------------------------------
\* Properties
\* ---------------------------------------------------------------------

Done(p) == pc[p] = "done"

\* no handler is between two of its steps
Quiescent == \A p \in Procs : pc[p] \in {"idle", "done"}

RECURSIVE SumAmounts(_)
\* sum of the amounts of the requests of a set of handlers
SumAmounts(P) ==
    IF P = {} THEN 0
    ELSE LET p == CHOOSE x \in P : TRUE
         IN req[p].amount + SumAmounts(P \ {p})

RECURSIVE SumRows(_)
\* sum of the amounts of a set of distinct credit_transactions rows, each
\* counted as often as it is in the table
SumRows(R) ==
    IF R = {} THEN 0
    ELSE LET r == CHOOSE x \in R : TRUE
         IN r.amount * CopiesIn(r, credit_transactions) + SumRows(R \ {r})

\* sum of the delta of all ledger entries of an email
LedgerSum(e) == SumRows({r \in BagToSet(credit_transactions) : r.email = e})

\* the same without the welcome grant
LedgerSumWithoutGrant(e) ==
    SumRows({r \in BagToSet(credit_transactions) : r.email = e /\ r.type # "free_grant"})

\* balance of an email before any request of the run
InitialCredits(e) == IF e \in DOMAIN InitUserCredits THEN InitUserCredits[e] ELSE 0

\* C1: no double spend. When every handler ran a deduct-credits request of a
\* positive amount for the same account, all have answered and the amounts
\* sum to more than the balance B the account started with, then the debits
\* that succeeded total at most B, every other one was refused as
\* insufficient, and the stored balance is B minus the successful total.
C1_NoDoubleSpend ==
    \A e \in Users :
        LET D == {p \in Procs : req[p].kind = "deduct-credits" /\ req[p].email = e}
            Ok == {p \in D : req[p].status = "success"}
        IN (/\ D = Procs
            /\ \A p \in D : Done(p) /\ req[p].amount > 0
            /\ SumAmounts(D) > InitialCredits(e))
           => /\ SumAmounts(Ok) <= InitialCredits(e)
              /\ \A p \in D \ Ok : req[p].status = "insufficient"
              /\ CreditsOrZero(e) = InitialCredits(e) - SumAmounts(Ok)

\* C2: idempotent credit. When every handler ran payments-verify for the same
\* paid session (the credit with that session as idempotency key) and all
\* have answered, the balance of the session's customer was increased by the
\* plan's credits exactly once.
C2_IdempotentCredit ==
    \A s \in SessionIds :
        LET e == StripeSession(s).customer_email
        IN (\A p \in Procs : /\ Done(p)
                             /\ req[p].kind = "payments-verify"
                             /\ req[p].sessionId = s
                             /\ req[p].status # "not_completed")
           => CreditsOrZero(e) = InitialCredits(e) + CreditsToAdd(StripeSession(s).plan)

\* C3: reconciliation safety. When the browser return path (verifyPayment) and
\* the webhook path (handleCheckoutCompleted) have both handled the same paid
\* session, exactly one of the two applied the credit, the other one reported
\* alreadyCredited, and the balance holds the plan's credits once.
C3_ReconcileOnce ==
    \A p, q \in Procs :
        (/\ Done(p) /\ Done(q)
         /\ req[p].kind = "verifyPayment"
         /\ req[q].kind = "handleCheckoutCompleted"
         /\ req[p].sessionId = req[q].sessionId
         /\ req[p].status \in {"added", "alreadyCredited"}
         /\ \A o \in Procs \ {p, q} : pc[o] = "idle")
        => /\ (req[p].status = "added") # (req[q].status = "credited")
           /\ profiles[req[p].email].credits_remaining
                 = ProfileDefaultCredits + req[p].amount

\* C4: in every reachable state every stored balance, in user_credits and in
\* profiles, is at least 0.
C4_BalanceNonNegative ==
    /\ \A e \in DOMAIN user_credits : user_credits[e] >= 0
    /\ \A u \in Users : profiles[u].credits_remaining >= 0
    /\ \A u \in Users : profiles[u].credits >= 0

\* a debit took the balance below the amount of a later debit, which was
\* refused
C4_Witness ==
    \E p, q \in Procs :
        /\ Done(p) /\ Done(q)
        /\ req[p].kind = "deduct-credits" /\ req[p].status = "success"
        /\ req[q].kind = "deduct-credits" /\ req[q].status = "insufficient"
        /\ req[q].email = req[p].email
        /\ user_credits[req[q].email] < req[q].amount

\* C5: in every reachable state there is at most one entry per payment
\* reference: at most one credit_transactions row per non-null
\* stripe_session_id and at most one payment_history row per stripe_invoice_id.
C5_OneEntryPerKey ==
    /\ \A s \in SessionIds : SessionRows(s) <= 1
    /\ \A r \in BagToSet(payment_history) :
          /\ CopiesIn(r, payment_history) = 1
          /\ \A r2 \in BagToSet(payment_history) :
                r2.stripe_invoice_id = r.stripe_invoice_id => r2 = r

\* credits of the paid sessions of a user whose plan the backend recognises
RECURSIVE PurchasedCredits(_, _)
PurchasedCredits(u, S) ==
    IF S = {} THEN 0
    ELSE LET s == CHOOSE x \in S : TRUE
         IN (IF s \in paid /\ StripeSession(s).supabase_user_id = u
             THEN PLAN_CONFIG(StripeSession(s).plan_name) ELSE 0)
            + PurchasedCredits(u, S \ {s})

\* C6 (the never-more-than-once half of exactly-once crediting): whatever
\* retries, duplicate calls and webhook redeliveries happen, a balance never
\* holds more than its starting credits plus the credits of the user's paid
\* sessions, each counted once.
C6_CreditedAtMostOnce ==
    \A u \in Users :
        profiles[u].credits_remaining
            <= ProfileDefaultCredits + PurchasedCredits(u, SessionIds)

\* C7: the balance write and the ledger-entry write are one atomic step: no
\* step changes user_credits without adding to credit_transactions, or adds
\* to credit_transactions without changing user_credits.
C7_AtomicBalanceAndEntry ==
    [][(user_credits' # user_credits) <=> (credit_transactions' # credit_transactions)]_vars

\* C8: ledger/balance consistency after operations. When no handler is between
\* two steps and every debit request carried a positive amount, each account's
\* balance is its signup bonus (100 for a user_credits row, the column
\* default for a profile) plus the sum of the delta of its ledger entries,
\* the welcome grant entry being that bonus.
C8_BalanceIsBonusPlusLedger ==
    (/\ Quiescent
     /\ \A p \in Procs : req[p].kind = "deduct-credits" => req[p].amount > 0)
    => /\ \A e \in DOMAIN user_credits :
             user_credits[e] = SignupBonus + LedgerSumWithoutGrant(e)
       /\ (\E p \in Procs : req[p].kind \in ExpressKinds)
             => \A u \in Users :
                   profiles[u].credits_remaining
                       = ProfileDefaultCredits + LedgerSumWithoutGrant(u)

\* C9: reconciliation invariant. In every reachable state the sum of the delta
\* of all ledger entries of an account, the welcome grant included, is the
\* account's balance.
C9_LedgerSumIsBalance ==
    \A e \in Users : CreditsOrZero(e) = LedgerSum(e)

\* the step in which a server-side debit reads the balance and checks it:
\* deduct-credits, SupabaseService.deductCredits and the pre-check of the
\* credits route on arrival, StripeService.deductCredits at dr_select
DebitRead(p) ==
    \/ /\ pc[p] = "idle" /\ pc'[p] # "idle"
       /\ req'[p].kind \in {"deduct-credits", "deductCredits", "credits-deduct"}
    \/ pc[p] = "dr_select" /\ pc'[p] # "dr_select"

\* the balance in the store that the debit of request r is charged to
StoredBalance(r) ==
    IF r.kind = "deduct-credits" THEN CreditsOrZero(r.email)
    ELSE profiles[r.email].credits_remaining

\* the debit was refused for lack of credits
Refused(r) == r.status \in {"insufficient", "not_enough_credits", "failed_to_deduct"}

\* C10 as claimed: a debit whose amount is greater than the stored balance
\* ends refused in the step that reads the balance, returns the unchanged
\* balance, and neither the balance tables nor the ledger change.
C10_RejectedReturnsBalance ==
    [][\A p \in Procs :
        (DebitRead(p) /\ req'[p].amount > StoredBalance(req'[p]))
        => /\ pc'[p] = "done" /\ Refused(req'[p])
           /\ req'[p].credits = StoredBalance(req'[p])
           /\ user_credits' = user_credits /\ profiles' = profiles
           /\ credit_transactions' = credit_transactions]_vars

\* request q arrived after handler p had answered
StartedAfter(q, p) == p \in req[q].after

\* C11: a repeat is an idempotent success. When verifyPayment for a paid
\* session answered that it added the credits and a second verifyPayment for
\* the same session arrived after that answer, the second one answers
\* alreadyCredited with the current balance and the balance still holds the
\* plan's credits once.
C11_RepeatIsIdempotent ==
    \A p, q \in Procs :
        (/\ Done(p) /\ Done(q)
         /\ req[p].kind = "verifyPayment" /\ req[q].kind = "verifyPayment"
         /\ req[p].sessionId = req[q].sessionId
         /\ req[p].status = "added"
         /\ StartedAfter(q, p)
         /\ \A o \in Procs \ {p, q} : pc[o] = "idle")
        => /\ req[q].status = "alreadyCredited"
           /\ req[q].credits = ProfileDefaultCredits + req[p].amount
           /\ profiles[req[p].email].credits_remaining
                 = ProfileDefaultCredits + req[p].amount

\* number of welcome grant entries of an email
GrantEntries(e) == CopiesIn(Txn(e, SignupBonus, "free_grant", Null), credit_transactions)

\* C12: concurrent first balance fetches. When every handler ran get-credits
\* for the same email that had no row, all of them arrived before any had
\* answered and all have answered, there is one row for the email, its
\* balance is the signup bonus and the ledger holds exactly one welcome grant
\* entry for it.
C12_OneAccountOneGrant ==
    \A e \in Users \ DOMAIN InitUserCredits :
        (\A p \in Procs : /\ Done(p)
                          /\ req[p].kind = "get-credits"
                          /\ req[p].email = e
                          /\ req[p].after = {})
        => /\ HasRow(e)
           /\ user_credits[e] = SignupBonus
           /\ GrantEntries(e) = 1

\* a first balance fetch (get-credits or fetchCredits) arrives for handler p
EnsureArrives(p) ==
    /\ pc[p] = "idle" /\ pc'[p] # "idle"
    /\ req'[p].kind \in {"get-credits", "fetchCredits"}

\* C13: the first balance fetch is idempotent. On an email that has a row the
\* fetch answers at once with the stored balance and changes neither the
\* balance nor the ledger; on an email without a row, run alone, it leaves a
\* row with the signup bonus of 100, one welcome grant entry, and answers 100.
C13_EnsureAccountIdempotent ==
    /\ [][\A p \in Procs :
            (EnsureArrives(p) /\ HasRow(req'[p].email))
            => /\ pc'[p] = "done"
               /\ req'[p].credits = user_credits[req'[p].email]
               /\ user_credits' = user_credits
               /\ credit_transactions' = credit_transactions]_vars
    /\ [](\A p \in Procs :
            (/\ Done(p)
             /\ req[p].kind \in {"get-credits", "fetchCredits"}
             /\ req[p].email \notin DOMAIN InitUserCredits
             /\ \A o \in Procs \ {p} : pc[o] = "idle")
            => /\ HasRow(req[p].email)
               /\ user_credits[req[p].email] = SignupBonus
               /\ SignupBonus = 100
               /\ GrantEntries(req[p].email) = 1
               /\ req[p].credits = SignupBonus)

\* C14: the debit precedes the AI call. In every step in which a tool action
\* invokes the AI provider, the debit of that action had returned success
\* before the step.
C14_DebitBeforeProvider ==
    [][\A p \in Procs :
        (req[p].ai = "none" /\ req'[p].ai # "none") => DebitSucceeded(p)]_vars

\* C15: a failing AI call leaves the ledger alone. The step in which the
\* provider call behind a successful debit fails changes no balance and no
\* ledger table, and when that action ran alone the balance stays the
\* starting balance less the cost: the debit is kept, nothing is given back.
C15_NoRefundOnProviderFailure ==
    /\ [][\A p \in Procs :
            (DebitSucceeded(p) /\ req[p].ai = "none" /\ req'[p].ai = "failed")
            => /\ user_credits' = user_credits
               /\ profiles' = profiles
               /\ credit_transactions' = credit_transactions
               /\ payment_history' = payment_history
               /\ payment_sessions' = payment_sessions]_vars
    /\ [](\A p \in Procs :
            (/\ DebitSucceeded(p) /\ req[p].ai = "failed"
             /\ \A o \in Procs \ {p} : pc[o] = "idle")
            => IF req[p].kind = "deductCredits"
               THEN profiles[req[p].email].credits_remaining
                        = ProfileDefaultCredits - req[p].amount
               ELSE user_credits[req[p].email]
                        = InitialCredits(req[p].email) - req[p].amount)

\* the provider call of a chat failed after its debit of 10 credits, which is kept
C15_Witness ==
    \E p \in Procs :
        /\ DebitSucceeded(p) /\ req[p].ai = "failed"
        /\ req[p].kind = "deductCredits" /\ req[p].amount > 0
        /\ profiles[req[p].email].credits_remaining
              = ProfileDefaultCredits - req[p].amount

\* the tool of debit request r has a price in the table its handler uses
ToolKnown(r) ==
    CASE r.kind = "credits-deduct" -> RouteToolCost(r.tool) # 0
      [] r.kind = "deductCredit"   -> r.tool \in PricedToolKeys
      [] OTHER                     -> TRUE

\* C16: an unknown tool is refused. The step in which a debit (the credits
\* route, or deductCredit of the browser context) takes a tool identifier
\* that is not in its price table ends the debit with an unknown-tool
\* failure and changes no balance and no ledger entry: no default cost of 1
\* is charged.
C16_UnknownToolRefused ==
    [][\A p \in Procs :
        (/\ req[p].tool = Null /\ req'[p].tool # Null
         /\ req'[p].kind \in {"credits-deduct", "deductCredit"}
         /\ ~ToolKnown(req'[p]))
        => /\ pc'[p] = "done"
           /\ req'[p].status = "unknown_tool"
           /\ user_credits' = user_credits
           /\ profiles' = profiles
           /\ credit_transactions' = credit_transactions]_vars

\* the session's metadata names a plan of the edge functions' price table
PlanRecognized(s) ==
    /\ StripeSession(s).plan # Null
    /\ PLAN_CREDITS(StripeSession(s).plan) # 0

\* C17: an unknown plan is refused. When payments-verify, run alone, has
\* answered for a paid session whose plan metadata is missing or names no
\* plan, the answer is an unknown-plan failure, the customer's balance is
\* what it was and no purchase entry records the session as credited.
C17_UnknownPlanRefused ==
    \A p \in Procs :
        (/\ Done(p)
         /\ req[p].kind = "payments-verify"
         /\ req[p].status # "not_completed"
         /\ ~PlanRecognized(req[p].sessionId)
         /\ \A o \in Procs \ {p} : pc[o] = "idle")
        => /\ req[p].status = "unknown_plan"
           /\ CreditsOrZero(req[p].email) = InitialCredits(req[p].email)
           /\ SessionRows(req[p].sessionId) = 0

\* a reconcile request (payments-verify, stripe-webhook or verifyPayment)
\* arrives for handler p
ReconcileArrives(p) ==
    /\ pc[p] = "idle" /\ pc'[p] # "idle"
    /\ req'[p].kind \in {"payments-verify", "stripe-webhook", "verifyPayment"}

\* handler p refused its session as unpaid
RefusedUnpaid(p) ==
    /\ Done(p)
    /\ \/ req[p].status = "not_completed"
       \/ req[p].kind = "stripe-webhook" /\ req[p].status = "received"

\* after a refusal of the unpaid session by p, the reconcile q of the browser
\* path, arrived later and finding the session paid, added the credits once
CreditedLater(p, q) ==
    /\ req[q].status = "added"
    /\ IF req[q].kind = "payments-verify"
       THEN CreditsOrZero(req[q].email) = InitialCredits(req[q].email) + req[q].amount
       ELSE profiles[req[q].email].credits_remaining
               = ProfileDefaultCredits + req[q].amount

\* p was refused as unpaid and q, for the same session, came later, alone
RetriedWhenPaid(p, q) ==
    /\ RefusedUnpaid(p) /\ Done(q)
    /\ req[p].after = {} /\ StartedAfter(q, p)
    /\ req[q].sessionId = req[p].sessionId
    /\ req[q].kind \in {"payments-verify", "verifyPayment"}
    /\ req[q].status \notin {"not_completed", "not_yours", "unknown_plan"}
    /\ \A o \in Procs \ {p, q} : pc[o] = "idle"

RecordedPrincipal(kind, s) ==
    IF kind = "verifyPayment" THEN StripeSession(s).supabase_user_id
    ELSE StripeSession(s).customer_email

\* handler p answered an authenticated reconcile of a paid session whose
\* recorded principal is not the caller
ForeignReconcile(p) ==
    /\ Done(p)
    /\ req[p].kind \in {"verifyPayment", "verify-payment"}
    /\ req[p].status # "not_completed"
    /\ req[p].email # RecordedPrincipal(req[p].kind, req[p].sessionId)

\* u has a paid session of its own that is worth credits
OwnsPaidSession(u) ==
    \E s \in paid :
        /\ StripeSession(s).customer_email = u
        /\ StripeSession(s).supabase_user_id = u
        /\ CREDITS_MAP(StripeSession(s).plan) + CreditsToAdd(StripeSession(s).plan) > 0

\* C19: an authenticated reconcile whose caller is not the principal recorded
\* on the payment fails with the ownership error, and no principal's balance
\* ever holds purchased credits unless that principal has a paid session of
\* its own.
C19_OwnershipChecked ==
    /\ \A p \in Procs : ForeignReconcile(p) => req[p].status = "not_yours"
    /\ \A u \in Users :
          (\/ profiles[u].credits > 0
           \/ profiles[u].credits_remaining > ProfileDefaultCredits)
          => OwnsPaidSession(u)

\* the attempt p met a storage failure and q is its retry: the same
\* reconcile, sent after p had answered, with no other request around
RetryOf(q, p) ==
    /\ Done(p) /\ Done(q)
    /\ req[p].fault # "none"
    /\ req[p].after = {} /\ StartedAfter(q, p)
    /\ req[q].kind = req[p].kind
    /\ req[q].sessionId = req[p].sessionId
    /\ \A o \in Procs \ {p, q} : pc[o] = "idle"

\* C20: a credit retried after a storage failure of the earlier attempt,
\* here after its balance write, changes the balance at most once in total:
\* after the attempt and its retry the balance is the starting balance plus
\* the session's credits.
C20_RetryAppliesOnce ==
    \A p, q \in Procs :
        RetryOf(q, p)
        => CreditsOrZero(req[p].email) = InitialCredits(req[p].email) + req[p].amount

\* C21: monotonic plan tier. No step lowers the rank of an account's
\* subscription_plan, and the balance write of a purchase whose plan ranks no
\* higher than the stored plan leaves the stored plan as it is.
C21_PlanTierMonotonic ==
    [][/\ \A u \in Users :
            planOrder(profiles'[u].subscription_plan)
                >= planOrder(profiles[u].subscription_plan)
       /\ \A p \in Procs :
            (/\ pc[p] \in {"vp_add_update", "hc_add_update"}
             /\ pc'[p] # pc[p]
             /\ planOrder(StripeSession(req[p].sessionId).plan_name)
                    <= planOrder(profiles[req[p].email].subscription_plan))
            => profiles'[req[p].email].subscription_plan
                  = profiles[req[p].email].subscription_plan]_vars

\* the debit answered by p was refused for lack of credits
RefusedForCredits(p) ==
    /\ Done(p)
    /\ req[p].kind = "credits-deduct"
    /\ req[p].status \in {"not_enough_credits", "failed_to_deduct"}

\* usage entries of the tool's cost logged for u: one per successful debit
DebitsLogged(u, tool) ==
    CopiesIn(Txn(u, -RouteToolCost(tool), "usage", Null), credit_transactions)

\* C22: sequential debits of the image-generation tool (cost 12) on a fresh
\* account succeed exactly while the balance is at least 12: a debit is
\* refused only after eight have succeeded, and it leaves the balance at
\* 100 - 8 * 12 = 4.
C22_EightDebitsThenRefused ==
    \A p \in Procs :
        (RefusedForCredits(p) /\ req[p].tool = "image_creator")
        => /\ DebitsLogged(req[p].email, "image_creator") = 8
           /\ profiles[req[p].email].credits_remaining
                 = SignupBonus - 8 * RouteToolCost("image_creator")

\* the step is the balance write of the browser context's deductCredit for p
ClientDebitWrites(p) == pc[p] = "cl_ready" /\ pc'[p] = "cl_insert"

\* C23: the balance a debit writes is the balance held in the store at the
\* moment of the write less the cost, never a value computed from the copy
\* the client cached: a debit of a client whose cached balance is stale does
\* not overwrite a change applied since the cache was read.
C23_DebitWritesFromStore ==
    [][\A p \in Procs :
          ClientDebitWrites(p)
          => user_credits'[req[p].email]
                = user_credits[req[p].email] - TOOL_COSTS(req'[p].tool)]_vars

\* p answered a successful debit and q a purchase credit of the same profile,
\* and no other request was made
DebitAndCredit(p, q) ==
    /\ Done(p) /\ Done(q)
    /\ req[p].kind = "credits-deduct"
    /\ req[p].status = "success"
    /\ req[q].kind \in {"verifyPayment", "handleCheckoutCompleted"}
    /\ req[q].status \in {"added", "credited"}
    /\ req[q].email = req[p].email
    /\ \A o \in Procs \ {p, q} : pc[o] = "idle"

\* C24: a debit of d and a purchase credit of c for one principal, run
\* concurrently from a stored balance B >= d, leave the stored balance at
\* B + c - d whatever the interleaving of their reads and writes.
C24_NoLostUpdate ==
    \A p, q \in Procs :
        DebitAndCredit(p, q)
        => profiles[req[p].email].credits_remaining
              = ProfileDefaultCredits + req[q].amount - req[p].amount

\* the step is the balance write of the deduct-credits request of p
DebitWrites(p) == pc[p] = "dc_upsert" /\ pc'[p] # "dc_upsert"

\* C25: a debit is applied only with amount > 0. The balance write of a
\* debit request, whatever amount the request carries, never leaves the
\* stored balance of the account higher than it was.
C25_DebitNeverIncreases ==
    [][\A p \in Procs :
          DebitWrites(p)
          => user_credits'[req[p].email] <= CreditsOrZero(req[p].email)]_vars

\* C26: a debit rejected for an insufficient balance is answered as
\* insufficient credits (403 with the balance), also when the balance became
\* insufficient between the pre-check and the debit's own read; it is never
\* answered with the 500 'Failed to deduct credits.' of a storage failure.
C26_InsufficientIsTyped ==
    \A p \in Procs : RefusedForCredits(p) => req[p].status = "not_enough_credits"

\* the reconcile answered by p applied the credit of its session
Credited(p) == Done(p) /\ req[p].status \in {"added", "credited"}

\* the plans on sale
Plans == {"personal", "creator", "studio", "flex"}

\* C27: the reconcile triggers converge. Two reconciles that each applied the
\* credit of a paid payment of one plan, whichever trigger ran them, granted
\* the same number of credits.
C27_TriggersGrantSameCredits ==
    \A p, q \in Procs :
        (/\ Credited(p) /\ Credited(q)
         /\ StripeSession(req[p].sessionId).plan \in Plans
         /\ StripeSession(req[p].sessionId).plan = StripeSession(req[q].sessionId).plan)
        => req[p].amount = req[q].amount

\* p read the balance of its principal through get-credits and q through
\* GET /api/credits/balance, and nothing else was asked of the system
ReadBothWays(p, q) ==
    /\ Done(p) /\ Done(q)
    /\ req[p].kind = "get-credits" /\ req[q].kind = "credits-balance"
    /\ req[q].email = req[p].email
    /\ \A o \in Procs \ {p, q} : pc[o] = "idle"

\* C28: one canonical ledger store. The balance of a principal read through
\* the get-credits function and through the balance route of the Express
\* backend, with no credit or debit in between, is the same number.
C28_OneLedgerStore ==
    \A p, q \in Procs : ReadBothWays(p, q) => req[p].credits = req[q].credits

\* the step leaves the balances of u as they are, in every store
BalanceKept(u) ==
    /\ (u \in DOMAIN user_credits') = (u \in DOMAIN user_credits)
    /\ u \in DOMAIN user_credits => user_credits'[u] = user_credits[u]
    /\ profiles'[u].credits_remaining = profiles[u].credits_remaining
    /\ profiles'[u].credits = profiles[u].credits

\* C29: a debit request changes only the balance of the principal
\* authenticated by its token. When every debit request is sent by one
\* principal, no step changes the balance of any other account, whatever
\* account the request bodies name.
C29_DebitOnlyOwnBalance ==
    [][\A u \in Users \ {Caller} : BalanceKept(u)]_vars

\* the step leaves the ledger entries of u as they are, in every table
EntriesKept(u) ==
    /\ \A r \in BagToSet(credit_transactions) \cup BagToSet(credit_transactions') :
          r.email = u => CopiesIn(r, credit_transactions') = CopiesIn(r, credit_transactions)
    /\ \A r \in BagToSet(payment_history) \cup BagToSet(payment_history') :
          r.user_id = u => CopiesIn(r, payment_history') = CopiesIn(r, payment_history)
    /\ \A r \in BagToSet(payment_sessions) \cup BagToSet(payment_sessions') :
          r.user_id = u => CopiesIn(r, payment_sessions') = CopiesIn(r, payment_sessions)

\* no request that takes a step in this step is performed for u
NotActedFor(u) == \A p \in Procs : pc'[p] # pc[p] => req'[p].email # u

\* C30: principal isolation. A step of a debit, credit, reconcile or
\* ensureAccount performed for one principal leaves the balance, the plan
\* tier and the ledger entries of every other principal unchanged.
C30_PrincipalIsolation ==
    [][\A u \in Users :
          NotActedFor(u)
          => /\ BalanceKept(u)
             /\ profiles'[u].subscription_plan = profiles[u].subscription_plan
             /\ EntriesKept(u)]_vars

\* a debit changed the balance of one principal and a purchase was credited
\* to another
C30_Witness ==
    \E p, q \in Procs :
        /\ Done(p) /\ Done(q)
        /\ req[p].email # req[q].email
        /\ req[p].kind = "deductCredit" /\ req[p].status = "true"
        /\ req[q].kind = "payments-verify" /\ req[q].status = "added"
        /\ user_credits[req[p].email] = InitialCredits(req[p].email) - req[p].amount
        /\ user_credits[req[q].email] = InitialCredits(req[q].email) + req[q].amount

====
